---------------------------- MODULE Spec2Model ----------------------------
(***************************************************************************)
(* Model of sms_server/fb_client.py: the mention extraction of             *)
(* fb_client._extract_mentions / _construct_message_from_text, the         *)
(* destination check and transport call of fb_client.send_message, and     *)
(* the listener lifecycle of fb_client.start_listen / stop_listen /        *)
(* _listen_daemon.                                                         *)
(*                                                                         *)
(* A text is a sequence of one-character strings.  Indices of the Python   *)
(* code are 0-based; TLA+ sequences are 1-based, so text[i + 1] is the     *)
(* character the code calls message_text[i].                               *)
(***************************************************************************)
EXTENDS Integers, Sequences, FiniteSets, TLC

(* ---------------------------- bounds ---------------------------------- *)

\* longest enumerated text
MaxLen == 5

\* characters of the enumerated texts: the mention sign, the separator and
\* an ordinary character
Chars == {"@", " ", "a"}

\* the scenario text "hello @Bob how are you"
HelloBob ==
    <<"h", "e", "l", "l", "o", " ", "@", "B", "o", "b", " ",
      "h", "o", "w", " ", "a", "r", "e", " ", "y", "o", "u">>

\* "hi a@b @Bob": a token with an inner '@' before a mention
InnerAt == <<"h", "i", " ", "a", "@", "b", " ", "@", "B", "o", "b">>

\* "@a@b @c @d": a token with two '@' before further mentions
DoubleAt == <<"@", "a", "@", "b", " ", "@", "c", " ", "@", "d">>

Examples == {HelloBob, InnerAt, DoubleAt}

Texts == (UNION {[1..n -> Chars] : n \in 0..MaxLen}) \cup Examples

\* what searchForUsers can return: no candidate, one, or several (uids)
Candidates == {<<>>, <<"U1">>, <<"U2", "U1">>}

\* StoppableThread objects one run constructs at most
MaxThreads == 2

\* start_listen / stop_listen calls of one run
MaxCalls == 4

\* receive steps of one loop that its hook log records; later ones are
\* made but not recorded
MaxReceive == 2

\* the threads that call start_listen / stop_listen
CallerIds == {1, 2}

ThreadIds == 1..MaxThreads

VARIABLES
    callers,        \* the caller threads of this run (fixed by Init)
    thread,         \* self.thread: 0 = no such attribute, else the object
    created,        \* StoppableThread objects constructed: ids 1..created
    tstate,         \* per object: "Running", "Stopping" or "Stopped"
    lpc,            \* per object: where its _listen_daemon thread stands
    hooks,          \* per object: the transport hooks its loop has called;
                    \* a receive step is "doOneListen" (returned True),
                    \* "doOneListen_False" or "doOneListen_raise"
    late,           \* per object: receive steps its loop began while the
                    \* run-flag it reads was already false (counted to 2)
    cpc,            \* per caller: where it stands in start/stop_listen
    cjoin,          \* per caller: the object its join() waits for
    calls           \* the finished calls, in order: [op, res, by]

lvars == <<callers, thread, created, tstate, lpc, hooks, late, cpc, cjoin,
          calls>>

VARIABLES
    called,         \* "none", "construct_message_from_text", "send_message"
    message_text,   \* argument message_text of that call
    dest,           \* arguments [user_uid, group_uid] of a send_message call
    users,          \* what the k-th searchForUsers call of that run returns
    same_obj,       \* outcome of `c is '@'` on an '@' character in that run
    outcome,        \* "none" (no call yet), "returned", "IndexError",
                    \* "FBClientError"
    message,        \* the Message built: [text, mentions]
    searches,       \* the arguments of the searchForUsers calls, in order
    sent            \* the transport send calls, in order

mvars == <<called, message_text, dest, users, same_obj, outcome, message,
           searches, sent>>

vars == <<lvars, mvars>>

(* ------------------------ _extract_mentions --------------------------- *)

\* `c is '@'` (line 60): an identity test between the character object c
\* and the str constant '@'.  Whether an '@' character of the text is that
\* very object is decided by the interpreter and the type of the text
\* (shared one-character str objects: yes; characters of a unicode text,
\* or an interpreter that does not share them: no).  `same` is that outcome.
IsAt(c, same) == c = "@" /\ same

\* AtIndices with the running index started at 1 instead of 0.
AtIndicesFromOne(text, same) ==
    LET idx == [i \in 1..Len(text) |-> i]
    IN  SelectSeq(idx, LAMBDA i : IsAt(text[i], same))

\* lines 55-62: the 0-based index of every character found to be '@'
AtIndices(text, same) ==
    LET idx == [i \in 1..Len(text) |-> i - 1]
    IN  SelectSeq(idx, LAMBDA i : IsAt(text[i + 1], same))

\* position of the first " " of s, 0 if there is none
FirstSpace(s) ==
    IF \E i \in 1..Len(s) : s[i] = " "
    THEN CHOOSE i \in 1..Len(s) : s[i] = " " /\ \A j \in 1..(i - 1) : s[j] # " "
    ELSE 0

RECURSIVE Split(_)
\* line 67: message_text.split(" "); adjacent spaces give empty elements
Split(s) ==
    IF FirstSpace(s) = 0
    THEN <<s>>
    ELSE <<SubSeq(s, 1, FirstSpace(s) - 1)>>
             \o Split(SubSeq(s, FirstSpace(s) + 1, Len(s)))

\* line 70: element.startswith("@")
StartsWithAt(element) == Len(element) >= 1 /\ element[1] = "@"

\* line 71: element[1:]
Tail1(element) == SubSeq(element, 2, Len(element))

\* lines 75-78: Mention(user.uid, offset=at_indices[at_count],
\* length=len(element)) for users[0]
NewMention(us, at_indices, at_count, element) ==
    [uid |-> us[1], offset |-> at_indices[at_count + 1],
     length |-> Len(element)]

\* at_count advanced only when the lookup matched
CountMatchedOnly(at_count, matched) ==
    IF matched THEN at_count + 1 ELSE at_count

\* line 80: at_count += 1, outside the `if len(users) is not 0`
NextAtCount(at_count, matched) == at_count + 1

RECURSIVE VisitElements(_, _, _, _, _, _, _)
\* lines 68-80: the walk over the elements from element i on.  at_count is
\* the number of '@'-leading elements seen, which is also the number of
\* lookups made; us[k] is the result of the k-th lookup.
VisitElements(elements, i, at_indices, at_count, us, mention, lookups) ==
    IF i > Len(elements)
    THEN [raised |-> "no", mention |-> mention, lookups |-> lookups]
    ELSE IF ~StartsWithAt(elements[i])
    THEN VisitElements(elements, i + 1, at_indices, at_count, us,
                       mention, lookups)
    ELSE LET found == us[at_count + 1]
             asked == Append(lookups, Tail1(elements[i]))
         IN  IF found # <<>> /\ at_count + 1 > Len(at_indices)
             THEN \* at_indices[at_count] is out of range
                  [raised |-> "IndexError", mention |-> mention,
                   lookups |-> asked]
             ELSE VisitElements(
                      elements, i + 1, at_indices,
                      NextAtCount(at_count, found # <<>>), us,
                      IF found # <<>>
                      THEN Append(mention,
                                  NewMention(found, at_indices, at_count,
                                             elements[i]))
                      ELSE mention,
                      asked)

\* _extract_mentions returning the list itself, also when it is empty
ExtractMentionsReturnsList(text, us, same) ==
    LET r == VisitElements(Split(text), 1, AtIndices(text, same), 0, us,
                           <<>>, <<>>)
    IN  [raised |-> r.raised,
         is_none |-> FALSE,
         mention |-> r.mention,
         lookups |-> r.lookups]

\* lines 43-82.  The return value is None when no Mention was appended.
ExtractMentions(text, us, same) ==
    LET r == VisitElements(Split(text), 1, AtIndices(text, same), 0, us,
                           <<>>, <<>>)
    IN  [raised |-> r.raised,
         is_none |-> (r.mention = <<>>),
         mention |-> r.mention,
         lookups |-> r.lookups]

\* number of '@'-leading elements of a text: the lookups a run can make
NumAtElements(text) ==
    Cardinality({i \in 1..Len(Split(text)) : StartsWithAt(Split(text)[i])})

NoMessage == [text |-> <<>>, is_none |-> TRUE, mentions |-> <<>>]

\* lines 85-99: Message(text=message_text, mentions=mentions); an exception
\* of _extract_mentions propagates and no Message is built
construct_message_from_text(text, us, same) ==
    LET r == ExtractMentions(text, us, same)
    IN  /\ message_text' = text
        /\ users' = us
        /\ same_obj' = same
        /\ outcome' = IF r.raised = "no" THEN "returned" ELSE r.raised
        /\ message' = IF r.raised = "no"
                      THEN [text |-> text, is_none |-> r.is_none,
                            mentions |-> r.mention]
                      ELSE NoMessage
        /\ searches' = r.lookups

\* an argument left at its default None
None == "None"

NoDest == [user_uid |-> None, group_uid |-> None]

\* a destination check that rejects only the call without any uid
InvalidOnlyWhenNeither(user_uid, group_uid) ==
    user_uid = None /\ group_uid = None

\* lines 116-120: neither uid given, or both
InvalidDestination(user_uid, group_uid) ==
    \/ (user_uid = None /\ group_uid = None)
    \/ (user_uid # None /\ group_uid # None)

\* lines 122-127: the thread_id and thread_type of the transport call
SendTarget(user_uid, group_uid) ==
    IF user_uid # None
    THEN [thread_id |-> user_uid, thread_type |-> "USER"]
    ELSE [thread_id |-> group_uid, thread_type |-> "GROUP"]

\* lines 102-127: the destination check, then the Message is built (the
\* argument of self.send is evaluated first) and handed to self.send; an
\* exception of _construct_message_from_text leaves before self.send
send_message(text, us, same, user_uid, group_uid) ==
    /\ called' = "send_message"
    /\ dest' = [user_uid |-> user_uid, group_uid |-> group_uid]
    /\ IF InvalidDestination(user_uid, group_uid)
       THEN /\ message_text' = text
            /\ users' = us
            /\ same_obj' = same
            /\ outcome' = "FBClientError"
            /\ message' = NoMessage
            /\ searches' = <<>>
            /\ sent' = <<>>
       ELSE /\ construct_message_from_text(text, us, same)
            /\ sent' = IF outcome' = "returned"
                       THEN <<[message |-> message',
                               thread_id |->
                                   SendTarget(user_uid, group_uid).thread_id,
                               thread_type |->
                                   SendTarget(user_uid, group_uid).thread_type]>>
                       ELSE <<>>

\* one call of _construct_message_from_text per behaviour, on any text, any
\* lookup results and either outcome of the identity test
Compose ==
    /\ called = "none"
    /\ \E text \in Texts, same \in BOOLEAN :
           \E us \in [1..NumAtElements(text) -> Candidates] :
               construct_message_from_text(text, us, same)
    /\ called' = "construct_message_from_text"
    /\ UNCHANGED <<dest, sent>>
    /\ UNCHANGED lvars

\* the uids a caller passes: None or a uid
UserUids == {None, "U9"}

GroupUids == {None, "G7"}

\* one call of send_message per behaviour, on any text, any lookup results,
\* either outcome of the identity test and any pair of uid arguments
Send ==
    /\ called = "none"
    /\ \E text \in Texts, same \in BOOLEAN :
           \E us \in [1..NumAtElements(text) -> Candidates] :
               \E user_uid \in UserUids, group_uid \in GroupUids :
                   send_message(text, us, same, user_uid, group_uid)
    /\ UNCHANGED lvars


(* --------------------------- StoppableThread --------------------------- *)
(* stoppable_thread.py is not part of the sources at hand; the three       *)
(* methods the client calls are modelled from the specification's          *)
(* ListenerState: a constructed object is Running, stop() requests the     *)
(* stop (run-flag false), stopped() marks the loop Stopped, and            *)
(* is_running() is true only in Running.                                   *)

\* StoppableThread.is_running()
is_running(t) == tstate[t] = "Running"

\* StoppableThread.stop(): the state of object t afterwards
stop(t) == IF tstate[t] = "Running" THEN "Stopping" ELSE tstate[t]

\* StoppableThread.stopped(): the state of object t afterwards
stopped(t) == "Stopped"

(* ---------------------------- _listen_daemon --------------------------- *)

\* the thread of object t is executing _listen_daemon
Live(t) ==
    lpc[t] \in {"startListening", "onListening", "check", "doOneListen",
                "stopListening", "stopped"}

\* the entries of a hook log that are receive steps
ReceiveHooks == {"doOneListen", "doOneListen_False", "doOneListen_raise"}

\* the receive steps in the hook log of t
Received(t) ==
    Len(SelectSeq(hooks[t], LAMBDA h : h \in ReceiveHooks))

\* line 137: self.startListening()
LoopStartListening(t) ==
    /\ lpc[t] = "startListening"
    /\ hooks' = [hooks EXCEPT ![t] = Append(@, "startListening")]
    /\ lpc' = [lpc EXCEPT ![t] = "onListening"]
    /\ UNCHANGED <<mvars, late, callers, thread, created, tstate, cpc, cjoin, calls>>

\* line 138: self.onListening()
LoopOnListening(t) ==
    /\ lpc[t] = "onListening"
    /\ hooks' = [hooks EXCEPT ![t] = Append(@, "onListening")]
    /\ lpc' = [lpc EXCEPT ![t] = "check"]
    /\ UNCHANGED <<mvars, late, callers, thread, created, tstate, cpc, cjoin, calls>>

\* the loop condition without the look at the run-flag
LoopCheckIgnoresFlag(t) ==
    /\ lpc[t] = "check"
    /\ lpc' = [lpc EXCEPT ![t] = IF thread = 0 THEN "died" ELSE "doOneListen"]
    /\ UNCHANGED <<mvars, late, callers, thread, created, tstate, hooks, cpc,
                   cjoin, calls>>

\* line 139, left operand: self.thread.is_running(), on whatever object
\* self.thread names now; without the attribute the AttributeError ends
\* the thread
LoopCheck(t) ==
    /\ lpc[t] = "check"
    /\ lpc' = [lpc EXCEPT ![t] =
                  IF thread = 0 THEN "died"
                  ELSE IF is_running(thread) THEN "doOneListen"
                  ELSE "stopListening"]
    /\ UNCHANGED <<mvars, late, callers, thread, created, tstate, hooks, cpc, cjoin, calls>>

\* the run-flag the loop reads is false (or cannot be read) right now
FlagFalse == thread = 0 \/ ~is_running(thread)

\* line 139, right operand: one self.doOneListen(): it returns True (loop
\* again), returns False (leave the loop) or raises (the thread ends there)
LoopDoOneListen(t) ==
    /\ lpc[t] = "doOneListen"
    /\ \E r \in {"True", "False", "raise"} :
           /\ hooks' = [hooks EXCEPT ![t] =
                           IF Received(t) >= MaxReceive THEN @
                           ELSE Append(@, CASE r = "True" -> "doOneListen"
                                            [] r = "False" -> "doOneListen_False"
                                            [] OTHER -> "doOneListen_raise")]
           /\ lpc' = [lpc EXCEPT ![t] =
                         CASE r = "True" -> "check"
                           [] r = "False" -> "stopListening"
                           [] OTHER -> "died"]
    /\ late' = [late EXCEPT ![t] =
                   IF FlagFalse /\ @ < 2 THEN @ + 1 ELSE @]
    /\ UNCHANGED <<mvars, callers, thread, created, tstate, cpc, cjoin, calls>>

\* line 142: self.stopListening()
LoopStopListening(t) ==
    /\ lpc[t] = "stopListening"
    /\ hooks' = [hooks EXCEPT ![t] = Append(@, "stopListening")]
    /\ lpc' = [lpc EXCEPT ![t] = "stopped"]
    /\ UNCHANGED <<mvars, late, callers, thread, created, tstate, cpc, cjoin, calls>>

\* line 143: self.thread.stopped(), then the thread's target returns
LoopStopped(t) ==
    /\ lpc[t] = "stopped"
    /\ IF thread = 0
       THEN /\ lpc' = [lpc EXCEPT ![t] = "died"]
            /\ UNCHANGED tstate
       ELSE /\ lpc' = [lpc EXCEPT ![t] = "exited"]
            /\ tstate' = [tstate EXCEPT ![thread] = stopped(thread)]
    /\ UNCHANGED <<mvars, late, callers, thread, created, hooks, cpc, cjoin, calls>>

(* ------------------------------ callers -------------------------------- *)

\* the calls begun so far, finished or not
Begun == Len(calls) + Cardinality({c \in CallerIds : cpc[c] # "idle"})

\* the call of caller c ends with result res
Finish(c, op, res) ==
    /\ calls' = Append(calls, [op |-> op, res |-> res, by |-> c])
    /\ cpc' = [cpc EXCEPT ![c] = "idle"]

\* objects still to be constructed by calls that passed the check
Pending == Cardinality({c \in CallerIds : cpc[c] = "start_assign"})

\* start_listen that never raises "already listening"
StartListenUnchecked(c) ==
    /\ cpc[c] = "idle"
    /\ Begun < MaxCalls
    /\ created + Pending < MaxThreads
    /\ cpc' = [cpc EXCEPT ![c] = "start_assign"]
    /\ UNCHANGED <<mvars, late, callers, thread, created, tstate, lpc, hooks, cjoin, calls>>

\* a start_listen that drops the handle when it raises "already listening"
StartListenCheckDropsHandle(c) ==
    /\ cpc[c] = "idle"
    /\ Begun < MaxCalls
    /\ thread = 0 => created + Pending < MaxThreads
    /\ IF thread # 0
       THEN /\ Finish(c, "start_listen", "AlreadyListening")
            /\ thread' = 0
       ELSE /\ cpc' = [cpc EXCEPT ![c] = "start_assign"]
            /\ UNCHANGED <<calls, thread>>
    /\ UNCHANGED <<mvars, late, callers, created, tstate, lpc, hooks, cjoin>>

\* lines 153-158: start_listen reads self.thread; the attribute exists:
\* FBClientError; it does not: the except branch is entered
StartListenCheck(c) ==
    /\ cpc[c] = "idle"
    /\ Begun < MaxCalls
    /\ thread = 0 => created + Pending < MaxThreads
    /\ IF thread # 0
       THEN Finish(c, "start_listen", "AlreadyListening")
       ELSE /\ cpc' = [cpc EXCEPT ![c] = "start_assign"]
            /\ UNCHANGED calls
    /\ UNCHANGED <<mvars, late, callers, thread, created, tstate, lpc, hooks, cjoin>>

\* line 159: self.thread = StoppableThread(...), a new object
StartListenAssign(c) ==
    /\ cpc[c] = "start_assign"
    /\ created < MaxThreads
    /\ created' = created + 1
    /\ thread' = created + 1
    /\ tstate' = [tstate EXCEPT ![created + 1] = "Running"]
    /\ lpc' = [lpc EXCEPT ![created + 1] = "created"]
    /\ cpc' = [cpc EXCEPT ![c] = "start_start"]
    /\ UNCHANGED <<mvars, late, callers, hooks, cjoin, calls>>

\* line 160: self.thread.start(), on whatever object self.thread names now;
\* threading.Thread.start() raises RuntimeError on a started thread
StartListenStart(c) ==
    /\ cpc[c] = "start_start"
    /\ IF thread = 0
       THEN /\ Finish(c, "start_listen", "AttributeError")
            /\ UNCHANGED lpc
       ELSE IF lpc[thread] = "created"
       THEN /\ Finish(c, "start_listen", "ok")
            /\ lpc' = [lpc EXCEPT ![thread] = "startListening"]
       ELSE /\ Finish(c, "start_listen", "RuntimeError")
            /\ UNCHANGED lpc
    /\ UNCHANGED <<mvars, late, callers, thread, created, tstate, hooks, cjoin>>

\* stop_listen that goes on without the attribute
StopListenUnchecked(c) ==
    /\ cpc[c] = "idle"
    /\ Begun < MaxCalls
    /\ cpc' = [cpc EXCEPT ![c] = "stop_is_running"]
    /\ UNCHANGED <<mvars, late, callers, thread, created, tstate, lpc, hooks, cjoin, calls>>

\* lines 170-174: stop_listen reads self.thread; no such attribute:
\* FBClientError
StopListenCheck(c) ==
    /\ cpc[c] = "idle"
    /\ Begun < MaxCalls
    /\ IF thread = 0
       THEN Finish(c, "stop_listen", "NotListening")
       ELSE /\ cpc' = [cpc EXCEPT ![c] = "stop_is_running"]
            /\ UNCHANGED calls
    /\ UNCHANGED <<mvars, late, callers, thread, created, tstate, lpc, hooks, cjoin>>

\* line 176: if self.thread.is_running(); when it is not, stop_listen
\* returns without doing anything
StopListenIsRunning(c) ==
    /\ cpc[c] = "stop_is_running"
    /\ IF thread = 0
       THEN Finish(c, "stop_listen", "AttributeError")
       ELSE IF is_running(thread)
       THEN /\ cpc' = [cpc EXCEPT ![c] = "stop_stop"]
            /\ UNCHANGED calls
       ELSE Finish(c, "stop_listen", "ok")
    /\ UNCHANGED <<mvars, late, callers, thread, created, tstate, lpc, hooks, cjoin>>

\* a stop_listen that goes on to join() without calling stop()
StopListenSkipsStop(c) ==
    /\ cpc[c] = "stop_stop"
    /\ IF thread = 0
       THEN Finish(c, "stop_listen", "AttributeError")
       ELSE /\ cpc' = [cpc EXCEPT ![c] = "stop_join"]
            /\ UNCHANGED calls
    /\ UNCHANGED <<mvars, late, callers, thread, created, tstate, lpc, hooks,
                   cjoin>>

\* line 178: self.thread.stop()
StopListenStop(c) ==
    /\ cpc[c] = "stop_stop"
    /\ IF thread = 0
       THEN /\ Finish(c, "stop_listen", "AttributeError")
            /\ UNCHANGED tstate
       ELSE /\ tstate' = [tstate EXCEPT ![thread] = stop(thread)]
            /\ cpc' = [cpc EXCEPT ![c] = "stop_join"]
            /\ UNCHANGED calls
    /\ UNCHANGED <<mvars, late, callers, thread, created, lpc, hooks, cjoin>>

\* line 179, entering self.thread.join(): the object is read now;
\* threading.Thread.join() raises RuntimeError on a thread not yet started
StopListenJoin(c) ==
    /\ cpc[c] = "stop_join"
    /\ IF thread = 0
       THEN /\ Finish(c, "stop_listen", "AttributeError")
            /\ UNCHANGED cjoin
       ELSE IF lpc[thread] = "created"
       THEN /\ Finish(c, "stop_listen", "RuntimeError")
            /\ UNCHANGED cjoin
       ELSE /\ cjoin' = [cjoin EXCEPT ![c] = thread]
            /\ cpc' = [cpc EXCEPT ![c] = "stop_joining"]
            /\ UNCHANGED calls
    /\ UNCHANGED <<mvars, late, callers, thread, created, tstate, lpc, hooks>>

\* a join() that returns without waiting for the thread
StopListenJoinedNoWait(c) ==
    /\ cpc[c] = "stop_joining"
    /\ cpc' = [cpc EXCEPT ![c] = "stop_del"]
    /\ UNCHANGED <<mvars, late, callers, thread, created, tstate, lpc, hooks, cjoin, calls>>

\* line 179, leaving join(): only once the joined thread has ended
StopListenJoined(c) ==
    /\ cpc[c] = "stop_joining"
    /\ lpc[cjoin[c]] \in {"exited", "died"}
    /\ cpc' = [cpc EXCEPT ![c] = "stop_del"]
    /\ UNCHANGED <<mvars, late, callers, thread, created, tstate, lpc, hooks, cjoin, calls>>

\* line 181: del self.thread
StopListenDel(c) ==
    /\ cpc[c] = "stop_del"
    /\ IF thread = 0
       THEN /\ Finish(c, "stop_listen", "AttributeError")
            /\ UNCHANGED thread
       ELSE /\ Finish(c, "stop_listen", "ok")
            /\ thread' = 0
    /\ UNCHANGED <<mvars, late, callers, created, tstate, lpc, hooks, cjoin>>

\* lines 20-40: a client has no thread attribute and no call in progress
ListenerInit ==
    /\ thread = 0
    /\ created = 0
    /\ tstate = [t \in ThreadIds |-> "Running"]
    /\ lpc = [t \in ThreadIds |-> "unborn"]
    /\ hooks = [t \in ThreadIds |-> <<>>]
    /\ late = [t \in ThreadIds |-> 0]
    /\ cpc = [c \in CallerIds |-> "idle"]
    /\ cjoin = [c \in CallerIds |-> 0]
    /\ calls = <<>>

Next ==
    \/ \E c \in callers : StartListenCheck(c)
    \/ \E c \in callers : StartListenAssign(c)
    \/ \E c \in callers : StartListenStart(c)
    \/ \E c \in callers : StopListenCheck(c)
    \/ \E c \in callers : StopListenIsRunning(c)
    \/ \E c \in callers : StopListenStop(c)
    \/ \E c \in callers : StopListenJoin(c)
    \/ \E c \in callers : StopListenJoined(c)
    \/ \E c \in callers : StopListenDel(c)
    \/ \E t \in ThreadIds : LoopStartListening(t)
    \/ \E t \in ThreadIds : LoopOnListening(t)
    \/ \E t \in ThreadIds : LoopCheck(t)
    \/ \E t \in ThreadIds : LoopDoOneListen(t)
    \/ \E t \in ThreadIds : LoopStopListening(t)
    \/ \E t \in ThreadIds : LoopStopped(t)

MentionInit ==
    /\ called = "none"
    /\ message_text = <<>>
    /\ dest = NoDest
    /\ users = <<>>
    /\ same_obj = TRUE
    /\ outcome = "none"
    /\ message = NoMessage
    /\ searches = <<>>
    /\ sent = <<>>

MentionNext ==
    \/ Compose
    \/ Send

\* one caller thread and the loop thread: the scheduling the client is
\* written for
Init == MentionInit /\ ListenerInit /\ callers = {1}

\* two caller threads
InitConc == MentionInit /\ ListenerInit /\ callers = CallerIds

Spec == Init /\ [][Next]_vars

SpecConc == InitConc /\ [][Next]_vars

\* the scheduler lets the loop thread take its next step, every
\* doOneListen call returns, and a caller inside stop_listen goes on
Fairness ==
    /\ \A t \in ThreadIds :
           /\ WF_vars(LoopStartListening(t))
           /\ WF_vars(LoopOnListening(t))
           /\ WF_vars(LoopCheck(t))
           /\ WF_vars(LoopDoOneListen(t))
           /\ WF_vars(LoopStopListening(t))
           /\ WF_vars(LoopStopped(t))
    /\ \A c \in CallerIds :
           /\ WF_vars(StopListenStop(c))
           /\ WF_vars(StopListenJoin(c))
           /\ WF_vars(StopListenJoined(c))
           /\ WF_vars(StopListenDel(c))

SpecFair == Init /\ [][Next]_vars /\ Fairness

SpecMention == Init /\ [][MentionNext]_vars

(* -------------------- properties of the mention code ------------------- *)

\* the elements of the text of the last call, in order
Elems == Split(message_text)

RECURSIVE ElementStart(_, _)
\* 0-based index in the text of the first character of element j
ElementStart(elements, j) ==
    IF j = 1 THEN 0
    ELSE ElementStart(elements, j - 1) + Len(elements[j - 1]) + 1

\* the number of '@'-leading elements among elements 1..j: for an
\* '@'-leading element j, the number of the lookup made for it
Rank(elements, j) ==
    Cardinality({k \in 1..j : StartsWithAt(elements[k])})

\* element j leads with '@' and its lookup, under results us, is not empty
Resolves(elements, us, j) ==
    StartsWithAt(elements[j]) /\ us[Rank(elements, j)] # <<>>

\* the number of resolving elements among elements 1..j: for a resolving
\* element j, the place of its span in the returned list
SpanPlace(elements, us, j) ==
    Cardinality({k \in 1..j : Resolves(elements, us, k)})

\* C6: for every text, every '@'-leading element whose lookup returns a
\* candidate gets a span at the index of its own '@', with the element's
\* length and the first candidate's uid; "hello @Bob how are you" with
\* Bob -> U1 yields exactly [{U1, 6, 4}].  Stated of the runs that return
\* (that no run raises is C10).
C6_SpanAtOwnAt ==
    outcome = "returned" =>
        /\ \A j \in 1..Len(Elems) :
               Resolves(Elems, users, j) =>
                   \E k \in 1..Len(message.mentions) :
                       message.mentions[k] =
                           [uid |-> users[Rank(Elems, j)][1],
                            offset |-> ElementStart(Elems, j),
                            length |-> Len(Elems[j])]
        /\ (message_text = HelloBob /\ users = <<(<<"U1">>)>>) =>
               message.mentions = <<[uid |-> "U1", offset |-> 6, length |-> 4]>>

\* C7: an '@'-leading element whose lookup is empty gets no span but still
\* consumes one entry of at_indices: the spans are those of the resolving
\* elements, each with the at_indices entry of its rank among all '@'-leading
\* elements, and a resolving element keeps its offset and length when
\* unmatched elements are made to match.
C7_UnmatchedConsumesOffset ==
    outcome = "returned" =>
        LET ats == AtIndices(message_text, same_obj)
            resolving == {j \in 1..Len(Elems) : Resolves(Elems, users, j)}
            others == {us \in [DOMAIN users -> Candidates] :
                          \A i \in DOMAIN users :
                              users[i] # <<>> => us[i] = users[i]}
        IN  /\ Len(message.mentions) = Cardinality(resolving)
            /\ \A j \in resolving :
                   LET m == message.mentions[SpanPlace(Elems, users, j)]
                   IN  /\ m.offset = ats[Rank(Elems, j)]
                       /\ m.length = Len(Elems[j])
                       /\ \A us \in others :
                              LET r == ExtractMentions(message_text, us,
                                                       same_obj)
                                  m2 == r.mention[SpanPlace(Elems, us, j)]
                              IN  r.raised = "no" =>
                                      /\ m2.offset = m.offset
                                      /\ m2.length = m.length

\* a run where a mention follows an '@'-leading element that did not match
C7_Witness ==
    /\ outcome = "returned"
    /\ \E i, j \in DOMAIN users :
           i < j /\ users[i] = <<>> /\ users[j] # <<>>
    /\ Len(message.mentions) >= 1

\* C8: every span lies inside the text: offset >= 0, length >= 1 and
\* offset + length <= len(text), also when an element holds an inner '@'
\* or several '@'.
C8_SpanInsideText ==
    outcome = "returned" =>
        \A k \in 1..Len(message.mentions) :
            /\ message.mentions[k].offset >= 0
            /\ message.mentions[k].length >= 1
            /\ message.mentions[k].offset + message.mentions[k].length
                   <= Len(message_text)

\* spans returned for texts with an inner '@' and with a double '@'
C8_Witness ==
    /\ outcome = "returned"
    /\ message_text = DoubleAt
    /\ Len(message.mentions) = 3

\* C9: the spans of one text never overlap.
C9_SpansDisjoint ==
    outcome = "returned" =>
        \A k1, k2 \in 1..Len(message.mentions) :
            k1 < k2 =>
                LET a == message.mentions[k1]
                    b == message.mentions[k2]
                IN  \/ a.offset + a.length <= b.offset
                    \/ b.offset + b.length <= a.offset

\* C10: _construct_message_from_text never fails (at_indices is never
\* indexed out of range) and the Message carries the input text.
C10_ComposeNeverFails ==
    (called # "none" /\ outcome # "FBClientError") =>
        /\ outcome = "returned"
        /\ message.text = message_text

(* ------------------------ send_message, lookups ------------------------ *)

\* the last call got as far as _extract_mentions
Extracted == called # "none" /\ outcome # "FBClientError"

\* C11: send_message with both uids or with neither fails with
\* FBClientError before any collaborator is called: no searchForUsers
\* lookup and no transport send.
C11_InvalidDestinationFails ==
    (/\ called = "send_message"
     /\ (dest.user_uid = None) = (dest.group_uid = None))
        => /\ outcome = "FBClientError"
           /\ searches = <<>>
           /\ sent = <<>>

\* send_message refused with both uids given, on a text with a mention to
\* look up
C11_Witness ==
    /\ called = "send_message"
    /\ dest.user_uid # None
    /\ dest.group_uid # None
    /\ NumAtElements(message_text) >= 1
    /\ outcome = "FBClientError"

\* C12: with exactly one uid given, send_message makes exactly one
\* transport send call, carrying the message composed from the text, to
\* USER / user_uid or to GROUP / group_uid.
C12_OneSendToDestination ==
    (/\ called = "send_message"
     /\ (dest.user_uid = None) # (dest.group_uid = None))
        => /\ Len(sent) = 1
           /\ sent[1].message = message
           /\ sent[1].message.text = message_text
           /\ dest.user_uid # None =>
                  /\ sent[1].thread_type = "USER"
                  /\ sent[1].thread_id = dest.user_uid
           /\ dest.group_uid # None =>
                  /\ sent[1].thread_type = "GROUP"
                  /\ sent[1].thread_id = dest.group_uid

\* the text of the last call holds no '@'
NoAtInText == \A i \in 1..Len(message_text) : message_text[i] # "@"

ExpectedSearches ==
    LET ats == SelectSeq(Elems, StartsWithAt)
    IN  [k \in 1..Len(ats) |-> Tail1(ats[k])]

\* the resolving elements, in element order
ResolvingElems ==
    LET idx == [j \in 1..Len(Elems) |-> j]
    IN  SelectSeq(idx, LAMBDA j : Resolves(Elems, users, j))

\* C19: _extract_mentions looks up every '@'-leading element exactly once,
\* in element order, with the element minus its '@', and no other element;
\* the spans come in that order, one per resolving element, with strictly
\* increasing offsets.
C19_OneLookupPerAtElement ==
    Extracted =>
        /\ searches = ExpectedSearches
        /\ Len(message.mentions) = Len(ResolvingElems)
        /\ \A k \in 1..Len(message.mentions) :
               /\ message.mentions[k].length = Len(Elems[ResolvingElems[k]])
               /\ message.mentions[k].uid
                      = users[Rank(Elems, ResolvingElems[k])][1]
        /\ \A k \in 1..(Len(message.mentions) - 1) :
               message.mentions[k].offset < message.mentions[k + 1].offset


(* ------------------ properties of the listener lifecycle --------------- *)

\* the ListenerState of the client: Idle without a loop handle, else the
\* state of the object the handle names
ListenerState == IF thread = 0 THEN "Idle" ELSE tstate[thread]

\* call i of the log is op and ended with res
Was(i, op, res) == calls[i].op = op /\ calls[i].res = res

\* this step ends a call, of caller c, with op and res
Ends(c, op, res) ==
    /\ Len(calls') = Len(calls) + 1
    /\ calls'[Len(calls')] = [op |-> op, res |-> res, by |-> c]

\* C1: at every moment at most one receive loop exists, for every
\* interleaving of start_listen / stop_listen, two concurrent start_listen
\* of different caller threads included: two starts never both succeed
\* without a stop between them.
C1_AtMostOneLoop ==
    /\ Cardinality({t \in ThreadIds : Live(t)}) <= 1
    /\ \A i, j \in 1..Len(calls) :
           (/\ i < j
            /\ Was(i, "start_listen", "ok")
            /\ Was(j, "start_listen", "ok"))
               => \E k \in (i + 1)..(j - 1) : calls[k].op = "stop_listen"

\* C2: a start_listen after a successful start_listen, with no successful
\* stop_listen between the two, fails with the already-listening error, and
\* no second thread object is made: the objects are those of the successful
\* starts and of the start in progress.
C2_SecondStartFails ==
    /\ \A i, j \in 1..Len(calls) :
           (/\ i < j
            /\ Was(i, "start_listen", "ok")
            /\ calls[j].op = "start_listen"
            /\ \A k \in (i + 1)..(j - 1) : ~Was(k, "stop_listen", "ok"))
               => calls[j].res = "AlreadyListening"
    /\ created = Cardinality({i \in 1..Len(calls) : Was(i, "start_listen", "ok")})
                   + Cardinality({c \in CallerIds : cpc[c] = "start_start"})

\* a start_listen that failed right after one that succeeded
C2_Witness ==
    \E i \in 1..(Len(calls) - 1) :
        /\ Was(i, "start_listen", "ok")
        /\ Was(i + 1, "start_listen", "AlreadyListening")

\* no start_listen has been called
NoStartYet ==
    /\ \A i \in 1..Len(calls) : calls[i].op # "start_listen"
    /\ \A c \in CallerIds : cpc[c] \notin {"start_assign", "start_start"}

\* C3: as long as start_listen has never been called, every stop_listen
\* fails with the not-listening error at once and nothing else happens: no
\* stop(), no join(), no thread object, no transport hook.
C3_StopBeforeStartFails ==
    NoStartYet =>
        /\ \A i \in 1..Len(calls) : Was(i, "stop_listen", "NotListening")
        /\ \A c \in CallerIds : cpc[c] = "idle" /\ cjoin[c] = 0
        /\ thread = 0
        /\ created = 0
        /\ \A t \in ThreadIds :
               hooks[t] = <<>> /\ lpc[t] = "unborn" /\ tstate[t] = "Running"

\* a stop_listen has been made on a client never started
C3_Witness == NoStartYet /\ Len(calls) >= 1

\* C4: when a stop_listen returns normally, no loop thread is live: the
\* loop it stopped has run its body to the end, stopListening included.
C4_StopReturnsAfterLoopExit ==
    [][(\E c \in callers : Ends(c, "stop_listen", "ok"))
           => \A t \in ThreadIds : ~Live(t)']_vars

\* a stop_listen has stopped a loop, joined it and released the handle
C4_Witness ==
    /\ \E i \in 1..Len(calls) : Was(i, "stop_listen", "ok")
    /\ created >= 1
    /\ thread = 0
    /\ \E t \in ThreadIds : lpc[t] = "exited" /\ Received(t) >= 1

\* C5: a stop_listen begun while the state is Idle or Stopped fails with
\* the not-listening error, also after the loop has ended on its own.
C5_StopFailsWhenIdleOrStopped ==
    [][\A c \in callers :
           (/\ cpc[c] = "idle"
            /\ ListenerState \in {"Idle", "Stopped"}
            /\ \/ cpc'[c] \in {"stop_is_running", "stop_stop"}
               \/ \E res \in {"ok", "NotListening", "AttributeError"} :
                      Ends(c, "stop_listen", res))
               => Ends(c, "stop_listen", "NotListening")]_vars

(* --------------------- properties of the receive loop ------------------ *)

\* the loop thread of object t has ended, by return or by exception
Ended(t) == lpc[t] \in {"exited", "died"}

\* C14: whenever the loop has ended, for whatever reason (run-flag false, a
\* receive step returned False, a receive step raised), stopListening has
\* been called after its startListening and the object is marked Stopped.
C14_ExitCallsStopListening ==
    \A t \in ThreadIds :
        Ended(t) =>
            /\ hooks[t] # <<>>
            /\ hooks[t][Len(hooks[t])] = "stopListening"
            /\ tstate[t] = "Stopped"

\* hook log h follows startListening, onListening, receive steps that all
\* but the last returned True, stopListening
InRunOrder(h) ==
    /\ Len(h) >= 1 => h[1] = "startListening"
    /\ Len(h) >= 2 => h[2] = "onListening"
    /\ \A i \in 3..Len(h) :
           /\ h[i] \in ReceiveHooks \cup {"stopListening"}
           /\ h[i] = "stopListening" => i = Len(h)
           /\ h[i] \in ReceiveHooks =>
                  \A j \in 3..(i - 1) : h[j] = "doOneListen"

\* C15: in one loop run the hooks come in the order startListening once,
\* onListening once, receive steps, stopListening once: no receive step
\* before the first two or after stopListening or after a receive step
\* that returned False, and an ended run has made its stopListening.
C15_HookOrder ==
    \A t \in ThreadIds :
        /\ InRunOrder(hooks[t])
        /\ Ended(t) =>
               /\ Len(hooks[t]) >= 3
               /\ hooks[t][Len(hooks[t])] = "stopListening"

\* this step is a receive step of the loop of t: it adds to its hook log
\* or to its count of late receive steps
BeginsReceive(t) == Received(t)' > Received(t) \/ late'[t] > late[t]

\* C16: the loop looks at the run-flag before every receive step: at most
\* one receive step begins once the flag is false, and none once the loop
\* has seen it false (so none at all if that was at its first look).
C16_FlagCheckedBeforeEachReceive ==
    /\ [](\A t \in ThreadIds : late[t] <= 1)
    /\ [][\A t \in ThreadIds :
              /\ (lpc[t] = "check" /\ FlagFalse) => lpc'[t] # "doOneListen"
              /\ BeginsReceive(t) => lpc[t] = "doOneListen" /\ late[t] = 0
              /\ lpc[t] \in {"stopListening", "stopped", "exited", "died"}
                     => lpc'[t] \notin {"check", "doOneListen"}]_vars

\* one loop ended without any receive step because the stop was requested
\* before its first look at the flag, and another loop began one receive
\* step after the flag had been set false
C16_Witness ==
    \E t1, t2 \in ThreadIds :
        /\ lpc[t1] = "exited"
        /\ hooks[t1] = <<"startListening", "onListening", "stopListening">>
        /\ late[t2] = 1

\* C17: with the loop thread scheduled and every doOneListen returning, a
\* stop_listen that found the loop Running returns, with no loop live and
\* the handle released.
C17_StopReturns ==
    \A c \in CallerIds :
        (cpc[c] = "stop_stop")
            ~> (/\ cpc[c] = "idle"
                /\ thread = 0
                /\ \A t \in ThreadIds : ~Live(t))

\* a stop_listen has found the loop Running while it was in a receive step
C17_Witness ==
    \E c \in CallerIds :
        /\ cpc[c] = "stop_stop"
        /\ thread # 0
        /\ lpc[thread] = "doOneListen"

\* C18: after every end of a loop the client can be started again: the
\* start_listen that follows a stop_listen which returned normally
\* succeeds, and an idle client is never left with a handle that
\* stop_listen will not release while no loop is live.
C18_RestartAfterLoopEnd ==
    /\ \A i \in 1..(Len(calls) - 1) :
           (Was(i, "stop_listen", "ok") /\ calls[i + 1].op = "start_listen")
               => calls[i + 1].res = "ok"
    /\ (/\ \A c \in CallerIds : cpc[c] = "idle"
        /\ thread # 0
        /\ \A t \in ThreadIds : ~Live(t))
           => is_running(thread)

\* this step ends a call of caller c that failed with a lifecycle error
FailsLifecycle(c) ==
    \/ Ends(c, "start_listen", "AlreadyListening")
    \/ Ends(c, "stop_listen", "NotListening")

\* C20: a start_listen that fails with already-listening and a stop_listen
\* that fails with not-listening change nothing: not the handle, not the
\* run-flag, not the loop.
C20_FailedCallChangesNothing ==
    [][(\E c \in callers : FailsLifecycle(c))
           => UNCHANGED <<thread, created, tstate, lpc, hooks, late, cjoin>>]_vars

\* a start_listen has failed while the loop was in a receive step
C20_Witness ==
    /\ \E i \in 1..Len(calls) : Was(i, "start_listen", "AlreadyListening")
    /\ thread # 0
    /\ lpc[thread] = "doOneListen"

=============================================================================
